---- MODULE Spec2Model ----
(***************************************************************************)
(* Concave: Effect-typed adapters over the Convex host runtime.            *)
(*                                                                         *)
(* Three specifications share this module:                                 *)
(*   Spec        the document/model layer (model.ts) over the host table   *)
(*   SpecQuery   the OrderedQuery / Query / QueryInitializer chain         *)
(*   SpecBridge  the schema -> validator bridge (mapSchemaToValidator)     *)
(*                                                                         *)
(* The model layer of src/src/model/model.ts pipes db.get(docId) through   *)
(* Option.fromNullable itself, i.e. it is written against the reader whose *)
(* get yields `Doc | null` (the reader tested in part_005:36-75).  The     *)
(* only reader class present in the sources, src/src/server/database.ts,   *)
(* is the revision whose get already yields an Option; it is modelled as   *)
(* ReaderGetOption and is not the reader the model layer is bound to.      *)
(***************************************************************************)
EXTENDS Integers, Sequences, FiniteSets, TLC

(***************************************************************************)
(* Bounds                                                                  *)
(***************************************************************************)
MaxId == 2

Ids == 1..MaxId

(***************************************************************************)
(* Values                                                                  *)
(***************************************************************************)
Null == [_tag |-> "null"]

Void == [_tag |-> "void"]

None == [_tag |-> "None"]

Some(x) == [_tag |-> "Some", value |-> x]

fromNullable(x) == IF x = Null THEN None ELSE Some(x)

(* Exit of an effect: success, typed failure, or defect. *)
Succeed(v) == [_tag |-> "Success", value |-> v]

Fail(e) == [_tag |-> "Failure", cause |-> "Fail", error |-> e]

Die(d) == [_tag |-> "Failure", cause |-> "Die", defect |-> d]

Pending == [_tag |-> "Pending"]

IsSuccess(x) == x._tag = "Success"

IsFail(x) == x._tag = "Failure" /\ x.cause = "Fail"

IsDie(x) == x._tag = "Failure" /\ x.cause = "Die"

DocNotFoundError == [_tag |-> "DocNotFoundError"]

DocNotUniqueError == [_tag |-> "NotUniqueDocError"]

ParseError == [_tag |-> "ParseError"]

(* E.catchTags / E.catchAll style handler: it sees typed failures only. *)
CatchTyped(x, recovered) == IF IsFail(x) THEN Succeed(recovered) ELSE x

(***************************************************************************)
(* The user table of the tests: S.Struct({name: S.String,                  *)
(* age: S.Number.pipe(S.positive())}) over defineTable({name, age}).       *)
(***************************************************************************)
Names == {"Joe", "Jane"}

Ages == {-1, 22}

TableFields == {"name", "age"}

SystemFieldNames == {"_id", "_creationTime"}

CreationTimeOf(id) == 1000 + id

SystemFields(id) == [_id |-> id, _creationTime |-> CreationTimeOf(id)]

(* The four derived shapes: which fields are known and which are required. *)
ShapeFields(shape) ==
  IF shape = "DocumentWithoutSystemFields" THEN TableFields
  ELSE TableFields \cup SystemFieldNames

(* The derived shapes with the system fields required wherever known. *)
ShapeRequired_systemRequired(shape) ==
  CASE shape = "DocumentWithoutSystemFields" -> TableFields
    [] shape = "DocumentWithOptionalSystemFields" -> TableFields \cup SystemFieldNames
    [] shape = "Document" -> TableFields \cup SystemFieldNames
    [] shape = "PartialDocument" -> SystemFieldNames

ShapeRequired(shape) ==
  CASE shape = "DocumentWithoutSystemFields" -> TableFields
    [] shape = "DocumentWithOptionalSystemFields" -> TableFields
    [] shape = "Document" -> TableFields \cup SystemFieldNames
    [] shape = "PartialDocument" -> {}

(* A field value conforms to its schema: age carries S.positive(). *)
FieldValid(f, x) == IF f = "age" THEN x > 0 ELSE TRUE

(* Struct parsing: every required field present, every known field valid. *)
ParseOk(shape, x) ==
  /\ ShapeRequired(shape) \subseteq DOMAIN x
  /\ \A f \in (DOMAIN x) \cap ShapeFields(shape) : FieldValid(f, x[f])

(* The parsed output keeps the known fields only (excess properties are    *)
(* ignored by Struct parsing).                                             *)
Parsed(shape, x) == [f \in (DOMAIN x) \cap ShapeFields(shape) |-> x[f]]

(* Record merge, right operand wins: {...old, ...new}. *)
Merge(old, new) == [f \in (DOMAIN old) \cup (DOMAIN new) |->
                      IF f \in DOMAIN new THEN new[f] ELSE old[f]]

(***************************************************************************)
(* Inputs                                                                  *)
(***************************************************************************)
CreateInputs == [name : Names, age : Ages]

PatchInputs == [age : Ages] \cup [name : Names]

ReplaceInputs == CreateInputs

(* Replacement values that carry one identity field, of some document. *)
IdentityInputs ==
  {[name |-> "Jane", age |-> 22, _id |-> i] : i \in Ids}
    \cup {[name |-> "Jane", age |-> 22, _creationTime |-> CreationTimeOf(i)] : i \in Ids}

(***************************************************************************)
(* State                                                                   *)
(***************************************************************************)
VARIABLES
  store,    \* the host table: id -> document or Null
  nextId,   \* the next identifier the host issues (never reused)
  inv       \* the model-layer invocation in flight or last completed

modelVars == <<store, nextId, inv>>

(* pre is the document the host held under docId when the invocation began. *)
Idle == [op |-> "none", stage |-> "idle", docId |-> 0, value |-> Null,
         pre |-> Null, calls |-> <<>>, exit |-> Pending]

(* A host call as a mock would log it: the method, the identifier it was   *)
(* given (for insert: the one it issued) and what the promise settled to.  *)
Call(fn, id, ret) == [fn |-> fn, id |-> id, ret |-> ret]

Resolved == [_tag |-> "resolved"]

Rejected == [_tag |-> "rejected"]

Settled(x) == IF IsSuccess(x) THEN Resolved ELSE Rejected

(***************************************************************************)
(* Host (Convex) table operations                                          *)
(***************************************************************************)
HostGet(st, id) == st[id]

HostInsert(st, id, value) == [st EXCEPT ![id] = Merge(value, SystemFields(id))]

HostPatch(st, id, value) == [st EXCEPT ![id] = Merge(@, value)]

HostReplace(st, id, value) ==
  [st EXCEPT ![id] = Merge(value, [_id |-> @._id, _creationTime |-> @._creationTime])]

HostDelete(st, id) == [st EXCEPT ![id] = Null]

(***************************************************************************)
(* Database reader                                                         *)
(***************************************************************************)
(* get of the reader in src/src/server/database.ts: Option-valued. *)
ReaderGetOption(st, id) == fromNullable(HostGet(st, id))

(* get of the reader the model layer is written against: Doc | null. *)
DbGet(st, id) == HostGet(st, id)

(***************************************************************************)
(* Model layer: reads                                                      *)
(***************************************************************************)
OptionSuccedOrFail(o, err) == IF o = None THEN Fail(err) ELSE Succeed(o.value)

(* A decode that reports the mismatch in the typed channel. *)
MapDecodeSync_typed(shape, x) ==
  IF ~IsSuccess(x) THEN x
  ELSE IF ParseOk(shape, x.value) THEN Succeed(Parsed(shape, x.value))
  ELSE Fail(ParseError)

(* E.map(S.decodeSync(shape)): a throw inside E.map is a defect. *)
MapDecodeSync(shape, x) ==
  IF ~IsSuccess(x) THEN x
  ELSE IF ParseOk(shape, x.value) THEN Succeed(Parsed(shape, x.value))
  ELSE Die(ParseError)

(* getById without the absent -> DocNotFoundError step. *)
getById_noAbsentCheck(st, docId) ==
  MapDecodeSync("Document", Succeed(DbGet(st, docId)))

(* getById decoding against the create shape: the system fields are lost. *)
getById_createShape(st, docId) ==
  MapDecodeSync("DocumentWithoutSystemFields",
    OptionSuccedOrFail(fromNullable(DbGet(st, docId)), DocNotFoundError))

getById(st, docId) ==
  MapDecodeSync("Document",
    OptionSuccedOrFail(fromNullable(DbGet(st, docId)), DocNotFoundError))

(* E.match({onFailure: () => null, onSuccess: (doc) => doc}) *)
getByIdNullable(st, docId) ==
  LET x == getById(st, docId)
  IN IF IsFail(x) THEN Succeed(Null) ELSE x

(* getByIdOption turning an undecodable document into None. *)
getByIdOption_swallow(st, docId) ==
  LET o == fromNullable(DbGet(st, docId))
  IN IF o = None THEN Succeed(None)
     ELSE IF ParseOk("Document", o.value)
          THEN Succeed(Some(Parsed("Document", o.value)))
          ELSE Succeed(None)

getByIdOption(st, docId) ==
  LET o == fromNullable(DbGet(st, docId))
  IN IF o = None THEN Succeed(None)
     ELSE IF ParseOk("Document", o.value)
          THEN Succeed(Some(Parsed("Document", o.value)))
          ELSE Die(ParseError)

(* Encode through S.encodeSync: the mismatch is thrown, hence a defect. *)
Encode_sync(shape, value) ==
  IF ParseOk(shape, value) THEN Succeed(Parsed(shape, value)) ELSE Die(ParseError)

(* S.encode(shape)(value) as an effect: a typed ParseError on mismatch. *)
Encode(shape, value) ==
  IF ParseOk(shape, value) THEN Succeed(Parsed(shape, value)) ELSE Fail(ParseError)

(* orDieWith left out: the typed failure passes through. *)
orDieWith_passThrough(x, msg) == x

(* E.orDieWith: every typed failure becomes a defect. *)
orDieWith(x, msg) == IF IsFail(x) THEN Die(msg) ELSE x

TypeOK ==
  /\ store \in [Ids -> {Null} \cup UNION {[_id : {i}, _creationTime : {CreationTimeOf(i)},
                                           name : Names, age : Ages] : i \in Ids}]
  /\ nextId \in 1..(MaxId + 1)
  /\ inv.stage \in {"idle", "mid", "done"}

(***************************************************************************)
(* Model layer: operations as actions over one foreground invocation       *)
(***************************************************************************)
Free == inv.stage # "mid"

PreOf(docId) == IF docId \in Ids THEN HostGet(store, docId) ELSE Null

Done(op, docId, value, calls, exit) ==
  [op |-> op, stage |-> "done", docId |-> docId, value |-> value,
   pre |-> PreOf(docId), calls |-> calls, exit |-> exit]

GetById(docId) ==
  /\ Free
  /\ inv' = Done("getById", docId, Null,
                 <<Call("get", docId, HostGet(store, docId))>>, getById(store, docId))
  /\ UNCHANGED <<store, nextId>>

GetByIdNullable(docId) ==
  /\ Free
  /\ inv' = Done("getByIdNullable", docId, Null,
                 <<Call("get", docId, HostGet(store, docId))>>,
                 getByIdNullable(store, docId))
  /\ UNCHANGED <<store, nextId>>

GetByIdOption(docId) ==
  /\ Free
  /\ inv' = Done("getByIdOption", docId, Null,
                 <<Call("get", docId, HostGet(store, docId))>>,
                 getByIdOption(store, docId))
  /\ UNCHANGED <<store, nextId>>

(***************************************************************************)
(* Database writer (E.promise over the host call: a rejected promise is a  *)
(* defect).  The host's answer to a write on an identifier that holds no   *)
(* document is the host's choice: `accepts` says whether it resolves.      *)
(***************************************************************************)
HostRejected == [_tag |-> "HostRejected"]

DbPatch(st, id, value, accepts) ==
  IF HostGet(st, id) # Null THEN [exit |-> Succeed(Void), store |-> HostPatch(st, id, value)]
  ELSE IF accepts THEN [exit |-> Succeed(Void), store |-> st]
  ELSE [exit |-> Die(HostRejected), store |-> st]

(* The identity fields a value carries are those of the stored document. *)
IdentityMatches(doc, value) ==
  \A f \in SystemFieldNames \cap DOMAIN value : value[f] = doc[f]

(* The writer hands the value to the host as it is; whether the host       *)
(* resolves a replace whose value carries another document's identity is   *)
(* again the host's choice.                                                *)
DbReplace(st, id, value, accepts) ==
  IF HostGet(st, id) # Null /\ (IdentityMatches(HostGet(st, id), value) \/ accepts)
  THEN [exit |-> Succeed(Void), store |-> HostReplace(st, id, value)]
  ELSE IF HostGet(st, id) = Null /\ accepts THEN [exit |-> Succeed(Void), store |-> st]
  ELSE [exit |-> Die(HostRejected), store |-> st]

DbDelete(st, id, accepts) ==
  IF HostGet(st, id) # Null THEN [exit |-> Succeed(Void), store |-> HostDelete(st, id)]
  ELSE IF accepts THEN [exit |-> Succeed(Void), store |-> st]
  ELSE [exit |-> Die(HostRejected), store |-> st]

(***************************************************************************)
(* Model layer: writes.  Each yields the exit, the store after it and the  *)
(* host calls it issued.                                                   *)
(***************************************************************************)
(* insert answering with an identifier the host stored nothing under. *)
insert_lost(st, id, value) ==
  LET enc == Encode("DocumentWithoutSystemFields", value)
  IN IF ~IsSuccess(enc) THEN [exit |-> enc, store |-> st, calls |-> <<>>]
     ELSE [exit |-> Succeed(id), store |-> st,
           calls |-> <<Call("insert", id, Resolved)>>]

insert(st, id, value) ==
  LET enc == Encode("DocumentWithoutSystemFields", value)
  IN IF ~IsSuccess(enc) THEN [exit |-> enc, store |-> st, calls |-> <<>>]
     ELSE [exit |-> Succeed(id), store |-> HostInsert(st, id, enc.value),
           calls |-> <<Call("insert", id, Resolved)>>]

(* patchById looking the document up first and failing when it is absent. *)
patchById_lookup(st, docId, value, accepts) ==
  LET enc == Encode("PartialDocument", value)
  IN IF ~IsSuccess(enc) THEN [exit |-> enc, store |-> st, calls |-> <<>>]
     ELSE IF DbGet(st, docId) = Null
          THEN [exit |-> Fail(DocNotFoundError), store |-> st,
                calls |-> <<Call("get", docId, Null)>>]
          ELSE LET w == DbPatch(st, docId, enc.value, accepts)
               IN [exit |-> w.exit, store |-> w.store,
                   calls |-> <<Call("patch", docId, Settled(w.exit))>>]

patchById(st, docId, value, accepts) ==
  LET enc == Encode("PartialDocument", value)
  IN IF ~IsSuccess(enc) THEN [exit |-> enc, store |-> st, calls |-> <<>>]
     ELSE LET w == DbPatch(st, docId, enc.value, accepts)
          IN [exit |-> w.exit, store |-> w.store,
              calls |-> <<Call("patch", docId, Settled(w.exit))>>]

(* replaceById handing the value to the host before encoding it. *)
replaceById_writeFirst(st, docId, value, accepts) ==
  LET w == DbReplace(st, docId, value, accepts)
      enc == Encode("DocumentWithOptionalSystemFields", value)
  IN IF ~IsSuccess(enc)
     THEN [exit |-> enc, store |-> w.store, calls |-> <<>>]
     ELSE [exit |-> w.exit, store |-> w.store,
           calls |-> <<Call("replace", docId, Settled(w.exit))>>]

replaceById(st, docId, value, accepts) ==
  LET enc == Encode("DocumentWithOptionalSystemFields", value)
  IN IF ~IsSuccess(enc) THEN [exit |-> enc, store |-> st, calls |-> <<>>]
     ELSE LET w == DbReplace(st, docId, enc.value, accepts)
          IN [exit |-> w.exit, store |-> w.store,
              calls |-> <<Call("replace", docId, Settled(w.exit))>>]

(* deleteById succeeding without reaching the host. *)
deleteById_noop(st, docId, accepts) ==
  [exit |-> Succeed(Void), store |-> st,
   calls |-> <<Call("delete", docId, Resolved)>>]

(* deleteById looking the document up first and failing when it is absent. *)
deleteById_lookup(st, docId, accepts) ==
  IF DbGet(st, docId) = Null
  THEN [exit |-> Fail(DocNotFoundError), store |-> st,
        calls |-> <<Call("get", docId, Null)>>]
  ELSE LET w == DbDelete(st, docId, accepts)
       IN [exit |-> w.exit, store |-> w.store,
           calls |-> <<Call("delete", docId, Settled(w.exit))>>]

deleteById(st, docId, accepts) ==
  LET w == DbDelete(st, docId, accepts)
  IN [exit |-> w.exit, store |-> w.store,
      calls |-> <<Call("delete", docId, Settled(w.exit))>>]

CouldNotFind == [_tag |-> "Error", message |-> "Could not found doc"]

(* The second half of insertAndGet / patchByIdAndGet / replaceByIdAndGet:  *)
(* pipe(getById(docId), E.orDieWith(...)).                                 *)
getOrDie_recoverAbsent(st, docId) ==
  LET x == getById(st, docId) IN IF IsFail(x) THEN Succeed(Null) ELSE x

getOrDie(st, docId) == orDieWith(getById(st, docId), CouldNotFind)

(***************************************************************************)
(* Write actions                                                           *)
(***************************************************************************)
Insert(value) ==
  /\ Free
  /\ ParseOk("DocumentWithoutSystemFields", value) => nextId <= MaxId
  /\ LET r == insert(store, nextId, value)
     IN /\ store' = r.store
        /\ nextId' = IF IsSuccess(r.exit) THEN nextId + 1 ELSE nextId
        /\ inv' = Done("insert", IF IsSuccess(r.exit) THEN nextId ELSE 0,
                       value, r.calls, r.exit)

PatchById(docId, value, accepts) ==
  /\ Free
  /\ LET r == patchById(store, docId, value, accepts)
     IN /\ store' = r.store
        /\ inv' = Done("patchById", docId, value, r.calls, r.exit)
  /\ UNCHANGED nextId

ReplaceById(docId, value, accepts) ==
  /\ Free
  /\ LET r == replaceById(store, docId, value, accepts)
     IN /\ store' = r.store
        /\ inv' = Done("replaceById", docId, value, r.calls, r.exit)
  /\ UNCHANGED nextId

DeleteById(docId, accepts) ==
  /\ Free
  /\ LET r == deleteById(store, docId, accepts)
     IN /\ store' = r.store
        /\ inv' = Done("deleteById", docId, Null, r.calls, r.exit)
  /\ UNCHANGED nextId

(* The write half of an ...AndGet operation; the generator then suspends   *)
(* on the host read unless the write half already failed.                  *)
AfterWrite(op, docId, value, r) ==
  [op |-> op, stage |-> IF IsSuccess(r.exit) THEN "mid" ELSE "done",
   docId |-> docId, value |-> value, pre |-> PreOf(docId), calls |-> r.calls,
   exit |-> IF IsSuccess(r.exit) THEN Pending ELSE r.exit]

InsertAndGet(value) ==
  /\ Free
  /\ ParseOk("DocumentWithoutSystemFields", value) => nextId <= MaxId
  /\ LET r == insert(store, nextId, value)
     IN /\ store' = r.store
        /\ nextId' = IF IsSuccess(r.exit) THEN nextId + 1 ELSE nextId
        /\ inv' = AfterWrite("insertAndGet", IF IsSuccess(r.exit) THEN nextId ELSE 0,
                             value, r)

PatchByIdAndGet(docId, value, accepts) ==
  /\ Free
  /\ LET r == patchById(store, docId, value, accepts)
     IN /\ store' = r.store
        /\ inv' = AfterWrite("patchByIdAndGet", docId, value, r)
  /\ UNCHANGED nextId

ReplaceByIdAndGet(docId, value, accepts) ==
  /\ Free
  /\ LET r == replaceById(store, docId, value, accepts)
     IN /\ store' = r.store
        /\ inv' = AfterWrite("replaceByIdAndGet", docId, value, r)
  /\ UNCHANGED nextId

(* A read half that issues the host read twice. *)
ReRead_twice ==
  /\ inv.stage = "mid"
  /\ inv' = [inv EXCEPT !.stage = "done",
                        !.calls = @ \o <<Call("get", inv.docId, HostGet(store, inv.docId)),
                                         Call("get", inv.docId, HostGet(store, inv.docId))>>,
                        !.exit = getOrDie(store, inv.docId)]
  /\ UNCHANGED <<store, nextId>>

(* The read half: getById on the same identifier, typed failure -> defect. *)
ReRead ==
  /\ inv.stage = "mid"
  /\ inv' = [inv EXCEPT !.stage = "done",
                        !.calls = Append(@, Call("get", inv.docId,
                                                 HostGet(store, inv.docId))),
                        !.exit = getOrDie(store, inv.docId)]
  /\ UNCHANGED <<store, nextId>>

(***************************************************************************)
(* Other invocations writing through the raw database writer, without the  *)
(* model layer's encode step (GenericDatabaseWriter.insert / delete).      *)
(***************************************************************************)
OtherInsert(value) ==
  /\ nextId <= MaxId
  /\ store' = HostInsert(store, nextId, value)
  /\ nextId' = nextId + 1
  /\ UNCHANGED inv

OtherDelete(id) ==
  /\ HostGet(store, id) # Null
  /\ store' = HostDelete(store, id)
  /\ UNCHANGED <<nextId, inv>>

ModelInit ==
  /\ store = [i \in Ids |-> Null]
  /\ nextId = 1
  /\ inv = Idle

ForegroundNext ==
  \/ \E docId \in Ids : GetById(docId)
  \/ \E docId \in Ids : GetByIdNullable(docId)
  \/ \E docId \in Ids : GetByIdOption(docId)
  \/ \E value \in CreateInputs : Insert(value)
  \/ \E value \in CreateInputs : InsertAndGet(value)
  \/ \E docId \in Ids, value \in PatchInputs, accepts \in BOOLEAN :
       PatchById(docId, value, accepts)
  \/ \E docId \in Ids, value \in PatchInputs, accepts \in BOOLEAN :
       PatchByIdAndGet(docId, value, accepts)
  \/ \E docId \in Ids, value \in ReplaceInputs, accepts \in BOOLEAN :
       ReplaceById(docId, value, accepts)
  \/ \E docId \in Ids, value \in ReplaceInputs, accepts \in BOOLEAN :
       ReplaceByIdAndGet(docId, value, accepts)
  \/ \E docId \in Ids, accepts \in BOOLEAN : DeleteById(docId, accepts)
  \/ ReRead

OthersNext ==
  \/ \E value \in CreateInputs : OtherInsert(value)
  \/ \E id \in Ids : OtherDelete(id)

ModelNext == ForegroundNext \/ OthersNext

(* The foreground invocations alone, with replacement values that carry    *)
(* identity fields.                                                        *)
IdentityNext ==
  \/ \E value \in CreateInputs : Insert(value)
  \/ \E docId \in Ids : GetById(docId)
  \/ \E docId \in Ids, value \in IdentityInputs, accepts \in BOOLEAN :
       ReplaceById(docId, value, accepts)
  \/ \E docId \in Ids, value \in IdentityInputs, accepts \in BOOLEAN :
       ReplaceByIdAndGet(docId, value, accepts)
  \/ ReRead

(* A host that runs each mutation invocation atomically: no other          *)
(* invocation's write lands between the host calls of the one in flight.   *)
AtomicNext == ForegroundNext \/ (Free /\ OthersNext)

(***************************************************************************)
(* Query chain: QueryInitializer extends Query extends OrderedQuery.       *)
(* Every chain method wraps a new host query in a new object; objs is the  *)
(* heap of the objects created so far, rows the host table being queried.  *)
(***************************************************************************)
MaxRows == 3

MaxObjs == 3

VARIABLES
  rows,     \* the documents of the queried table, in creation order
  objs,     \* the query objects created so far
  qres,     \* the last terminal operation: receiver, host calls, exit
  pag       \* the caller's side of the last paginate: the options it passed and
            \* the cursor it held from the call before

queryVars == <<rows, objs, qres, pag>>

RowAges == {17, 22}

RowName(i) == IF i % 2 = 1 THEN "Joe" ELSE "Jane"

Row(i, a) == [_id |-> i, _creationTime |-> CreationTimeOf(i), name |-> RowName(i), age |-> a]

RowStates ==
  UNION {{[i \in 1..n |-> Row(i, ages[i])] : ages \in [1..n -> RowAges]} : n \in 0..MaxRows}

Preds == {"adult"}

PredHolds(p, d) == IF p = "adult" THEN d.age >= 18 ELSE d.name = "Joe"

(* The host query a wrapper object holds in convexQuery. *)
ConvexQuery(cls, source, preds, order) ==
  [cls |-> cls, source |-> source, preds |-> preds, order |-> order]

QueryInitializerObj == ConvexQuery("QueryInitializer", "table", {}, "asc")

Reverse(seq) == [i \in 1..Len(seq) |-> seq[Len(seq) + 1 - i]]

Matches(o, d) ==
  /\ \A p \in o.preds : PredHolds(p, d)
  /\ o.source = "search" => PredHolds("search", d)

(* What the host yields for a query: the matching rows in its order. *)
HostResults(o, table) ==
  LET hit == SelectSeq(table, LAMBDA d : Matches(o, d))
  IN IF o.order = "desc" THEN Reverse(hit) ELSE hit

HostTake(o, table, n) ==
  LET r == HostResults(o, table)
  IN SubSeq(r, 1, IF Len(r) < n THEN Len(r) ELSE n)

HostCollect(o, table) == HostResults(o, table)

(* Chain methods: the class of the result and the host query it wraps. *)
(* filter without the override in OrderedQuery's subclasses and with the   *)
(* wrong wrapper class: every result is a Query.                           *)
filter_asQuery(o, p) == ConvexQuery("Query", o.source, o.preds \cup {p}, o.order)

filter(o, p) ==
  ConvexQuery(IF o.cls = "OrderedQuery" THEN "OrderedQuery" ELSE "Query",
              o.source, o.preds \cup {p}, o.order)

order(o, ord) == ConvexQuery("OrderedQuery", o.source, o.preds, ord)

fullTableScan(o) == ConvexQuery("Query", "scan", o.preds, o.order)

withIndex(o) == ConvexQuery("Query", "index", o.preds, o.order)

withSearchIndex(o) == ConvexQuery("OrderedQuery", "search", o.preds, o.order)

(* Terminal methods: the exit and the host calls issued. *)
QCall(fn, n, ret) == [fn |-> fn, n |-> n, ret |-> ret]

take(o, table, n) ==
  LET r == HostTake(o, table, n)
  IN [exit |-> Succeed(r), calls |-> <<QCall("take", n, r)>>]

(* unique through collect(): it reads the whole result set. *)
unique_collect(o, table) ==
  LET docs == HostCollect(o, table)
  IN [exit |-> IF Len(docs) > 1 THEN Fail(DocNotUniqueError)
               ELSE Succeed(fromNullable(IF Len(docs) >= 1 THEN docs[1] ELSE Null)),
      calls |-> <<QCall("collect", 0, docs)>>]

unique(o, table) ==
  LET t == take(o, table, 2)
      docs == t.exit.value
  IN [exit |-> IF Len(docs) > 1 THEN Fail(DocNotUniqueError)
               ELSE Succeed(fromNullable(IF Len(docs) >= 1 THEN docs[1] ELSE Null)),
      calls |-> t.calls]

(* Pagination.  A cursor is the host's token for a position in the result *)
(* set; the caller starts with cursor null.                                *)
Cursor(pos) == [_tag |-> "Cursor", pos |-> pos]

PaginationOptions(numItems, cursor) == [numItems |-> numItems, cursor |-> cursor]

NumItems == {1, 2}

HostPaginate(o, table, paginationOpts) ==
  LET r == HostResults(o, table)
      start == IF paginationOpts.cursor = Null THEN 0 ELSE paginationOpts.cursor.pos
      stop == IF start + paginationOpts.numItems > Len(r) THEN Len(r)
              ELSE start + paginationOpts.numItems
  IN [page |-> SubSeq(r, start + 1, stop), isDone |-> stop >= Len(r),
      continueCursor |-> Cursor(stop)]

(* paginate always starting over: the caller's cursor is dropped. *)
paginate_restart(o, table, paginationOpts) ==
  LET given == PaginationOptions(paginationOpts.numItems, Null)
      ret == HostPaginate(o, table, given)
  IN [exit |-> Succeed(ret), calls |-> <<QCall("paginate", given, ret)>>]

paginate(o, table, paginationOpts) ==
  LET ret == HostPaginate(o, table, paginationOpts)
  IN [exit |-> Succeed(ret), calls |-> <<QCall("paginate", paginationOpts, ret)>>]

(* S.decodeSync(PaginationResult(Document)) inside E.map. *)
DecodePaginationResult(x) ==
  IF \A k \in 1..Len(x.page) : ParseOk("Document", x.page[k])
  THEN Succeed([page |-> [k \in 1..Len(x.page) |-> Parsed("Document", x.page[k])],
                isDone |-> x.isDone, continueCursor |-> x.continueCursor])
  ELSE Die(ParseError)

(* paginate of the model layer: q.paginate, then the decode. *)
modelPaginate(o, table, paginationOpts) ==
  LET r == paginate(o, table, paginationOpts)
  IN [exit |-> DecodePaginationResult(r.exit.value), calls |-> r.calls]

PaginateOps == {"paginate", "model.paginate"}

NoPaging == [opts |-> Null, prev |-> Null, chained |-> FALSE]

QIdle == [op |-> "none", recv |-> 0, calls |-> <<>>, exit |-> Pending]

QueryIdle ==
  /\ rows = <<>>
  /\ objs = <<QueryInitializerObj>>
  /\ qres = QIdle
  /\ pag = NoPaging

QueryInit ==
  /\ rows \in RowStates
  /\ objs = <<QueryInitializerObj>>
  /\ qres = QIdle
  /\ pag = NoPaging

(* A chain step that overwrites the newest object instead of adding one. *)
Chain_inPlace(o) ==
  /\ objs' = [objs EXCEPT ![Len(objs)] = o]
  /\ UNCHANGED <<rows, qres, pag>>

Chain(o) ==
  /\ Len(objs) < MaxObjs
  /\ objs' = Append(objs, o)
  /\ UNCHANGED <<rows, qres, pag>>

Filter(i, p) == Chain(filter(objs[i], p))

(* order offered by every class, OrderedQuery included. *)
Order_onOrdered(i, ord) == Chain(order(objs[i], ord))

Order(i, ord) ==
  /\ objs[i].cls \in {"Query", "QueryInitializer"}
  /\ Chain(order(objs[i], ord))

FullTableScan(i) ==
  /\ objs[i].cls = "QueryInitializer"
  /\ Chain(fullTableScan(objs[i]))

WithIndex(i) ==
  /\ objs[i].cls = "QueryInitializer"
  /\ Chain(withIndex(objs[i]))

WithSearchIndex(i) ==
  /\ objs[i].cls = "QueryInitializer"
  /\ Chain(withSearchIndex(objs[i]))

Take(i, n) ==
  /\ LET r == take(objs[i], rows, n)
     IN qres' = [op |-> "take", recv |-> i, calls |-> r.calls, exit |-> r.exit]
  /\ UNCHANGED <<rows, objs, pag>>

Unique(i) ==
  /\ LET r == unique(objs[i], rows)
     IN qres' = [op |-> "unique", recv |-> i, calls |-> r.calls, exit |-> r.exit]
  /\ UNCHANGED <<rows, objs, pag>>

(* The caller either starts over (cursor null) or, chained, hands back the *)
(* continueCursor the previous paginate on the same query returned.        *)
Paging(op, i, n, chained, r, cursor) ==
  /\ qres' = [op |-> op, recv |-> i, calls |-> r.calls, exit |-> r.exit]
  /\ pag' = [opts |-> PaginationOptions(n, cursor), prev |-> cursor, chained |-> chained]
  /\ UNCHANGED <<rows, objs>>

HeldCursor(i, chained) ==
  IF chained THEN qres.exit.value.continueCursor ELSE Null

CanChain(i, chained) ==
  chained => (qres.op \in PaginateOps /\ qres.recv = i /\ IsSuccess(qres.exit))

Paginate(i, n, chained) ==
  /\ CanChain(i, chained)
  /\ LET cursor == HeldCursor(i, chained)
     IN Paging("paginate", i, n, chained,
               paginate(objs[i], rows, PaginationOptions(n, cursor)), cursor)

ModelPaginate(i, n, chained) ==
  /\ CanChain(i, chained)
  /\ LET cursor == HeldCursor(i, chained)
     IN Paging("model.paginate", i, n, chained,
               modelPaginate(objs[i], rows, PaginationOptions(n, cursor)), cursor)

QueryNext ==
  \/ \E i \in 1..Len(objs), p \in Preds : Filter(i, p)
  \/ \E i \in 1..Len(objs), ord \in {"asc", "desc"} : Order(i, ord)
  \/ \E i \in 1..Len(objs) : FullTableScan(i)
  \/ \E i \in 1..Len(objs) : WithIndex(i)
  \/ \E i \in 1..Len(objs) : WithSearchIndex(i)
  \/ \E i \in 1..Len(objs), n \in 1..MaxRows : Take(i, n)
  \/ \E i \in 1..Len(objs) : Unique(i)

(* Every query object a chain starting at db.query(table) can build. *)
ChainStep(S) ==
  S \cup {filter(o, p) : o \in S, p \in Preds}
    \cup {order(o, ord) : o \in {q \in S : q.cls # "OrderedQuery"}, ord \in {"asc", "desc"}}
    \cup {fullTableScan(o) : o \in {q \in S : q.cls = "QueryInitializer"}}
    \cup {withIndex(o) : o \in {q \in S : q.cls = "QueryInitializer"}}
    \cup {withSearchIndex(o) : o \in {q \in S : q.cls = "QueryInitializer"}}

RECURSIVE ChainClosure(_)

ChainClosure(S) == IF ChainStep(S) = S THEN S ELSE ChainClosure(ChainStep(S))

QueryObjects == ChainClosure({QueryInitializerObj})

(* Paging through one query object of the chain. *)
PaginateInit ==
  /\ rows \in RowStates
  /\ \E o \in QueryObjects : objs = <<o>>
  /\ qres = QIdle
  /\ pag = NoPaging

PaginateNext ==
  \/ \E i \in 1..Len(objs), n \in NumItems, chained \in BOOLEAN : Paginate(i, n, chained)
  \/ \E i \in 1..Len(objs), n \in NumItems, chained \in BOOLEAN :
       ModelPaginate(i, n, chained)

(***************************************************************************)
(* Schema -> validator bridge (mapSchemaToValidator).                      *)
(* Schema AST nodes (effect SchemaAST) and Convex validators are           *)
(* records; literals are written as strings ("true", "false", "null", or   *)
(* the string itself).                                                     *)
(***************************************************************************)
MaxUnion == 2

AnyKeyword == [_tag |-> "AnyKeyword"]

UndefinedKeyword == [_tag |-> "UndefinedKeyword"]

SymbolKeyword == [_tag |-> "SymbolKeyword"]

NumberKeyword == [_tag |-> "NumberKeyword"]

BigIntKeyword == [_tag |-> "BigIntKeyword"]

BooleanKeyword == [_tag |-> "BooleanKeyword"]

StringKeyword == [_tag |-> "StringKeyword", tableName |-> ""]

(* SDocId(tableName): S.String annotated with ConvexTableName. *)
SDocId(tableName) == [_tag |-> "StringKeyword", tableName |-> tableName]

Literal(l) == [_tag |-> "Literal", literal |-> l]

Union(types) == [_tag |-> "Union", types |-> types]

Refinement(from, flt) == [_tag |-> "Refinement", from |-> from, filter |-> flt]

Transformation(from, to) == [_tag |-> "Transformation", from |-> from, to |-> to]

Element(type, isOptional) == [type |-> type, isOptional |-> isOptional]

Type(type) == [type |-> type]

TupleType(elements, rest) == [_tag |-> "TupleType", elements |-> elements, rest |-> rest]

PropertySignature(name, type, isOptional) ==
  [name |-> name, type |-> type, isOptional |-> isOptional]

IndexSignature(parameter, type) == [parameter |-> parameter, type |-> type]

TypeLiteral(propertySignatures, indexSignatures) ==
  [_tag |-> "TypeLiteral", propertySignatures |-> propertySignatures,
   indexSignatures |-> indexSignatures]

(* S.optional(X) inside S.Struct: an optional property whose type is the   *)
(* union of X with undefined.                                              *)
OptionalProperty(name, type) ==
  PropertySignature(name, Union(<<type, UndefinedKeyword>>), TRUE)

VAny == [kind |-> "any"]

VNull == [kind |-> "null"]

VNumber == [kind |-> "float64"]

VInt64 == [kind |-> "int64"]

VBoolean == [kind |-> "boolean"]

VString == [kind |-> "string"]

VId(tableName) == [kind |-> "id", tableName |-> tableName]

VLiteral(l) == [kind |-> "literal", value |-> l]

VUnion(members) == [kind |-> "union", members |-> members]

VArray(element) == [kind |-> "array", element |-> element]

VObject(fields) == [kind |-> "object", fields |-> fields]

VRecord(key, value) == [kind |-> "record", key |-> key, values |-> value]

VOptional(validator) == [kind |-> "optional", inner |-> validator]

(* A throw new Error(message) travelling up the recursion. *)
Throw(message) == [kind |-> "throw", message |-> message]

IsThrow(x) == x.kind = "throw"

AnyThrow(seq) == \E i \in 1..Len(seq) : IsThrow(seq[i])

FirstThrow(seq) ==
  seq[CHOOSE i \in 1..Len(seq) : IsThrow(seq[i]) /\ \A j \in 1..(i - 1) : ~IsThrow(seq[j])]

RECURSIVE mapAstToValidator(_, _)
RECURSIVE mapAstTupleTypeToVArray(_)
RECURSIVE mapAstTypeLiteralToValidator(_)
RECURSIVE mapIndexSignatureToVRecord(_)
RECURSIVE mapPropertySignaturesToVObject(_)

mapAstToValidator(ast, isOptionalProperty) ==
  LET tag == ast._tag
      validator ==
        CASE tag = "AnyKeyword" -> VAny
          [] tag = "Union" ->
               LET memberValidators ==
                     [i \in 1..Len(ast.types) |-> mapAstToValidator(ast.types[i], FALSE)]
               IN IF AnyThrow(memberValidators) THEN FirstThrow(memberValidators)
                  ELSE VUnion(memberValidators)
          [] tag = "Literal" -> IF ast.literal = "null" THEN VNull ELSE VLiteral(ast.literal)
          [] tag = "TupleType" -> mapAstTupleTypeToVArray(ast)
          [] tag = "TypeLiteral" -> mapAstTypeLiteralToValidator(ast)
          [] tag = "NumberKeyword" -> VNumber
          [] tag = "BigIntKeyword" -> VInt64
          [] tag = "BooleanKeyword" -> VBoolean
          [] tag = "StringKeyword" ->
               IF ast.tableName # "" THEN VId(ast.tableName) ELSE VString
          [] tag \in {"Refinement", "Transformation"} -> mapAstToValidator(ast.from, FALSE)
          [] OTHER -> Throw("Unsupported schema")
  IN IF IsThrow(validator) THEN validator
     ELSE IF isOptionalProperty THEN VOptional(validator)
     ELSE validator

mapAstTupleTypeToVArray(ast) ==
  LET fromElements ==
        [i \in 1..Len(ast.elements) |->
           IF ast.elements[i].isOptional
           THEN Throw("Convex doesn't suuport optional elements for tuples")
           ELSE mapAstToValidator(ast.elements[i].type, FALSE)]
      fromRest == [i \in 1..Len(ast.rest) |-> mapAstToValidator(ast.rest[i].type, FALSE)]
      validators == fromElements \o fromRest
  IN IF AnyThrow(validators) THEN FirstThrow(validators)
     ELSE IF Len(validators) = 0
          THEN Throw("Array/Tuple schemas require at least one element schema")
     ELSE IF Len(validators) = 1 THEN VArray(validators[1])
     ELSE VArray(VUnion(validators))

mapAstTypeLiteralToValidator(ast) ==
  IF Len(ast.indexSignatures) > 0
  THEN mapIndexSignatureToVRecord(ast.indexSignatures[1])
  ELSE mapPropertySignaturesToVObject(ast.propertySignatures)

mapIndexSignatureToVRecord(signature) ==
  IF signature.parameter._tag # "StringKeyword"
  THEN Throw("Convex supports only strings for record keys")
  ELSE LET keyValidator == mapAstToValidator(signature.parameter, FALSE)
           valueValidator == mapAstToValidator(signature.type, FALSE)
       IN IF IsThrow(keyValidator) THEN keyValidator
          ELSE IF IsThrow(valueValidator) THEN valueValidator
          ELSE VRecord(keyValidator, valueValidator)

(* The property loop keeping the declared type of an optional property. *)
mapPropertySignaturesToVObject_noUnwrap(signatures) ==
  LET mapped == [i \in 1..Len(signatures) |->
                   mapAstToValidator(signatures[i].type, signatures[i].isOptional)]
      names == {signatures[i].name : i \in 1..Len(signatures)}
  IN IF AnyThrow(mapped) THEN FirstThrow(mapped)
     ELSE VObject([n \in names |->
                     mapped[CHOOSE i \in 1..Len(signatures) : signatures[i].name = n]])

mapPropertySignaturesToVObject(signatures) ==
  LET propertyAst(signature) ==
        IF signature.isOptional /\ signature.type._tag = "Union"
        THEN signature.type.types[1]
        ELSE signature.type
      mapped == [i \in 1..Len(signatures) |->
                   mapAstToValidator(propertyAst(signatures[i]), signatures[i].isOptional)]
      names == {signatures[i].name : i \in 1..Len(signatures)}
  IN IF AnyThrow(mapped) THEN FirstThrow(mapped)
     ELSE VObject([n \in names |->
                     mapped[CHOOSE i \in 1..Len(signatures) : signatures[i].name = n]])

mapSchemaToValidator(schemaAst) == mapAstToValidator(schemaAst, FALSE)

(***************************************************************************)
(* Encoded values and what each side accepts                               *)
(***************************************************************************)
Num == [t |-> "number", v |-> "1"]

Str(s) == [t |-> "string", v |-> s]

BoolV(b) == [t |-> "boolean", v |-> b]

NullV == [t |-> "null", v |-> "null"]

Obj(f) == [t |-> "object", fields |-> f]

Arr(items) == [t |-> "array", items |-> items]

ValueOfLiteral(l) ==
  CASE l \in {"true", "false"} -> BoolV(l)
    [] l = "null" -> NullV
    [] OTHER -> Str(l)

Keys == {"name", "age"}

FieldValues == {Num, Str("guest"), BoolV("true"), BoolV("false")}

ItemValues == {Num, Str("guest")}

Values ==
  {Num, Str("guest"), Str("customer"), Str(""), BoolV("true"), BoolV("false"), NullV}
    \cup UNION {{Obj(f) : f \in [K -> FieldValues]} : K \in SUBSET Keys}
    \cup UNION {{Arr(items) : items \in [1..n -> ItemValues]} : n \in 0..2}

RECURSIVE SchemaAccepts(_, _)
RECURSIVE VAccepts(_, _)

(* The schema considers the encoded value x valid. *)
SchemaAccepts(ast, x) ==
  LET tag == ast._tag
  IN CASE tag = "AnyKeyword" -> TRUE
       [] tag = "Literal" -> x = ValueOfLiteral(ast.literal)
       [] tag = "NumberKeyword" -> x.t = "number"
       [] tag = "BigIntKeyword" -> x.t = "bigint"
       [] tag = "BooleanKeyword" -> x.t = "boolean"
       [] tag = "StringKeyword" -> x.t = "string"
       [] tag = "Union" -> \E i \in 1..Len(ast.types) : SchemaAccepts(ast.types[i], x)
       [] tag = "Refinement" ->
            /\ SchemaAccepts(ast.from, x)
            /\ (ast.filter = "nonEmpty" /\ x.t = "string") => x.v # ""
       [] tag = "Transformation" -> SchemaAccepts(ast.from, x)
       [] tag = "TupleType" ->
            /\ x.t = "array"
            /\ \A i \in 1..Len(ast.elements) :
                 IF i <= Len(x.items) THEN SchemaAccepts(ast.elements[i].type, x.items[i])
                 ELSE ast.elements[i].isOptional
            /\ \A i \in (Len(ast.elements) + 1)..Len(x.items) :
                 /\ Len(ast.rest) > 0
                 /\ SchemaAccepts(ast.rest[1].type, x.items[i])
       [] tag = "TypeLiteral" ->
            /\ x.t = "object"
            /\ \A i \in 1..Len(ast.propertySignatures) :
                 LET sig == ast.propertySignatures[i]
                 IN IF sig.name \in DOMAIN x.fields
                    THEN SchemaAccepts(sig.type, x.fields[sig.name])
                    ELSE sig.isOptional
            /\ Len(ast.indexSignatures) = 0 =>
                 DOMAIN x.fields \subseteq
                   {ast.propertySignatures[i].name : i \in 1..Len(ast.propertySignatures)}
            /\ \A j \in 1..Len(ast.indexSignatures), k \in DOMAIN x.fields :
                 /\ ast.indexSignatures[j].parameter._tag = "StringKeyword"
                 /\ SchemaAccepts(ast.indexSignatures[j].type, x.fields[k])
       [] OTHER -> FALSE

(* The Convex validator accepts the value x. *)
VAccepts(validator, x) ==
  LET kind == validator.kind
  IN CASE kind = "any" -> TRUE
       [] kind = "null" -> x = NullV
       [] kind = "float64" -> x.t = "number"
       [] kind = "int64" -> x.t = "bigint"
       [] kind = "boolean" -> x.t = "boolean"
       [] kind = "string" -> x.t = "string"
       [] kind = "id" -> x.t = "string"
       [] kind = "literal" -> x = ValueOfLiteral(validator.value)
       [] kind = "union" ->
            \E i \in 1..Len(validator.members) : VAccepts(validator.members[i], x)
       [] kind = "array" ->
            /\ x.t = "array"
            /\ \A i \in 1..Len(x.items) : VAccepts(validator.element, x.items[i])
       [] kind = "object" ->
            /\ x.t = "object"
            /\ DOMAIN x.fields \subseteq DOMAIN validator.fields
            /\ \A n \in DOMAIN validator.fields :
                 IF n \in DOMAIN x.fields
                 THEN VAccepts(validator.fields[n], x.fields[n])
                 ELSE validator.fields[n].kind = "optional"
       [] kind = "record" ->
            /\ x.t = "object"
            /\ \A k \in DOMAIN x.fields :
                 VAccepts(validator.key, Str(k)) /\ VAccepts(validator.values, x.fields[k])
       [] kind = "optional" -> VAccepts(validator.inner, x)
       [] OTHER -> FALSE

(***************************************************************************)
(* Schemas handed to the bridge                                            *)
(***************************************************************************)
Leaves ==
  {AnyKeyword, NumberKeyword, BigIntKeyword, BooleanKeyword, StringKeyword, SDocId("user"),
   Literal("true"), Literal("false"), Literal("guest"), Literal("null"), UndefinedKeyword}

UnionMembers ==
  {NumberKeyword, StringKeyword, Literal("true"), Literal("false"), UndefinedKeyword}

Unions == UNION {{Union(ms) : ms \in [1..n -> UnionMembers]} : n \in 2..MaxUnion}

Wrapped ==
  {Refinement(StringKeyword, "nonEmpty"), Refinement(NumberKeyword, "positive"),
   Transformation(StringKeyword, NumberKeyword), Transformation(NumberKeyword, StringKeyword)}

(* S.optional(S.Literal("guest", "customer")) and its like: the union of a  *)
(* two-member union with undefined.                                        *)
UndefinedOrUnions ==
  {Union(<<u, UndefinedKeyword>>) : u \in {w \in Unions : Len(w.types) = 2}}

FieldTypes == Leaves \cup Unions \cup UndefinedOrUnions \cup Wrapped

Structs ==
  {TypeLiteral(<<PropertySignature("age", t, o)>>, <<>>) : t \in FieldTypes, o \in BOOLEAN}
    \cup {TypeLiteral(<<PropertySignature("name", StringKeyword, FALSE),
                        PropertySignature("age", t, o)>>, <<>>) :
            t \in FieldTypes, o \in BOOLEAN}

Records ==
  {TypeLiteral(ps, <<IndexSignature(p, t)>>) :
     ps \in {<<>>, <<PropertySignature("name", StringKeyword, FALSE)>>,
             <<PropertySignature("name", NumberKeyword, FALSE)>>,
             <<PropertySignature("name", SymbolKeyword, FALSE)>>},
     p \in {StringKeyword, SymbolKeyword},
     t \in {NumberKeyword, StringKeyword}}

TupleElements == {Element(t, o) : t \in {NumberKeyword, StringKeyword}, o \in BOOLEAN}

Tuples ==
  {TupleType(es, rest) :
     es \in UNION {[1..n -> TupleElements] : n \in 0..2},
     rest \in {<<>>, <<Type(NumberKeyword)>>, <<Type(StringKeyword)>>}}

AstInputs == FieldTypes \cup Structs \cup Records \cup Tuples

VARIABLES
  ast,      \* the schema handed to mapSchemaToValidator
  out       \* its result: a validator, a thrown error, or NotRun

bridgeVars == <<ast, out>>

NotRun == [kind |-> "notRun"]

BridgeIdle ==
  /\ ast = AnyKeyword
  /\ out = NotRun

BridgeInit ==
  /\ ast \in AstInputs
  /\ out = NotRun

MapSchemaToValidator ==
  /\ out = NotRun
  /\ out' = mapSchemaToValidator(ast)
  /\ UNCHANGED ast

BridgeNext == MapSchemaToValidator

(***************************************************************************)
(* History of the model-layer calls (recorded under SpecHistory only)      *)
(***************************************************************************)
VARIABLES
  hist      \* fresh: id -> the value a model-layer insert stored under it, while
            \*        no write has changed that document since; deleted: the
            \*        issued ids on which a deleteById has succeeded

NoHistory == [fresh |-> [i \in Ids |-> Null], deleted |-> {}]

(* The step from (store, nextId, inv) to their primed values, as history. *)
Record ==
  LET inserted == nextId' # nextId /\ inv' # inv
      deletedNow ==
        /\ inv' # inv
        /\ inv'.op = "deleteById"
        /\ IsSuccess(inv'.exit)
        /\ inv'.docId < nextId
  IN hist' = [fresh |-> [i \in Ids |->
                          IF inserted /\ i = nextId THEN inv'.value
                          ELSE IF store'[i] # store[i] THEN Null
                          ELSE hist.fresh[i]],
              deleted |-> hist.deleted \cup (IF deletedNow THEN {inv'.docId} ELSE {})]

(***************************************************************************)
(* Registered functions and their contexts (server.ts, context.ts)         *)
(***************************************************************************)
MaxInv == 2

Invocations == 1..MaxInv

(* The wrappers a function is registered through.  query and mutation are  *)
(* the builders of createServerFunctions (their internal forms differ only *)
(* in the host registration they call); createFunctions.internalMutation   *)
(* is the internal mutation builder of createFunctions.                    *)
FunctionKinds == {"query", "mutation", "createFunctions.internalMutation", "httpAction"}

Tags == {"QueryCtx", "MutationCtx", "HttpActionCtx"}

(* The services the handler type of each wrapper lets an effect require. *)
Requirements(kind) ==
  CASE kind = "query" -> {"QueryCtx"}
    [] kind = "mutation" -> {"QueryCtx", "MutationCtx"}
    [] kind = "createFunctions.internalMutation" -> {"MutationCtx"}
    [] kind = "httpAction" -> {"HttpActionCtx"}

(* The native context object the host hands to invocation i.  A query's    *)
(* native context has no scheduler, an action's has no database.           *)
ConvexCtx(i, kind) ==
  [_tag |-> "ConvexCtx",
   auth |-> <<"auth", i>>,
   db |-> <<IF kind # "httpAction" THEN "db" ELSE "undefined", i>>,
   storage |-> <<"storage", i>>,
   scheduler |-> <<IF kind # "query" THEN "scheduler" ELSE "undefined", i>>]

(* A read context built around the writing database wrapper. *)
GenericQueryCtx_writer(convexQueryCtx) ==
  [_tag |-> "GenericQueryCtx",
   convexQueryCtx |-> convexQueryCtx,
   auth |-> [_tag |-> "Auth", convexAuth |-> convexQueryCtx.auth],
   db |-> [_tag |-> "GenericDatabaseWriter", convexDb |-> convexQueryCtx.db],
   storage |-> [_tag |-> "StorageReader", convexStorage |-> convexQueryCtx.storage]]

GenericQueryCtx(convexQueryCtx) ==
  [_tag |-> "GenericQueryCtx",
   convexQueryCtx |-> convexQueryCtx,
   auth |-> [_tag |-> "Auth", convexAuth |-> convexQueryCtx.auth],
   db |-> [_tag |-> "GenericDatabaseReader", convexDb |-> convexQueryCtx.db],
   storage |-> [_tag |-> "StorageReader", convexStorage |-> convexQueryCtx.storage]]

GenericMutationCtx(convexMutationCtx) ==
  [_tag |-> "GenericMutationCtx",
   convexMutationCtx |-> convexMutationCtx,
   auth |-> [_tag |-> "Auth", convexAuth |-> convexMutationCtx.auth],
   db |-> [_tag |-> "GenericDatabaseWriter", convexDb |-> convexMutationCtx.db],
   storage |-> [_tag |-> "StorageWriter", convexStorage |-> convexMutationCtx.storage],
   scheduler |-> [_tag |-> "Scheduler", convexScheduler |-> convexMutationCtx.scheduler]]

GenericActionCtx(convexActionCtx) ==
  [_tag |-> "GenericActionCtx",
   convexActionCtx |-> convexActionCtx,
   auth |-> [_tag |-> "Auth", convexAuth |-> convexActionCtx.auth],
   storage |-> [_tag |-> "StorageActionWriter",
                convexStorage |-> convexActionCtx.storage],
   scheduler |-> [_tag |-> "Scheduler", convexScheduler |-> convexActionCtx.scheduler]]

(* The methods each service class declares.  The storage classes are       *)
(* imported from ./storage, which is not among the sources: they are       *)
(* taken as the specification describes them.                              *)
StorageMethods(class) ==
  CASE class = "StorageReader" -> {"storage.read"}
    [] class = "StorageWriter" -> {"storage.read", "storage.write"}
    [] class = "StorageActionWriter" -> {"storage.read", "storage.write"}

DbReads == {"db.get", "db.query", "db.normalizeId"}

DbWrites == {"db.insert", "db.patch", "db.replace", "db.delete"}

Schedules == {"scheduler.runAfter", "scheduler.runAt", "scheduler.cancel"}

Methods(service) ==
  CASE service._tag = "Auth" -> {"auth.getUserIdentity"}
    [] service._tag = "GenericDatabaseReader" -> DbReads
    [] service._tag = "GenericDatabaseWriter" -> DbReads \cup DbWrites
    [] service._tag = "Scheduler" -> Schedules
    [] OTHER -> StorageMethods(service._tag)

(* Everything a handler can call on a context object: the methods of the   *)
(* services it holds and, on an action context, its own methods.           *)
Exposed(ctx) ==
  Methods(ctx.auth) \cup Methods(ctx.storage)
    \cup (IF ctx._tag = "GenericActionCtx" THEN {} ELSE Methods(ctx.db))
    \cup (IF ctx._tag = "GenericQueryCtx" THEN {} ELSE Methods(ctx.scheduler))
    \cup (IF ctx._tag = "GenericActionCtx"
          THEN {"runQuery", "runMutation", "runAction", "vectorSearch"} ELSE {})

(* Returns schemas of registered functions and the results of handlers. *)
NoSchema == [_tag |-> "NoSchema"]

NumberFromString == Transformation(StringKeyword, NumberKeyword)

ReturnsSchemas ==
  {NumberKeyword, NumberFromString, Union(<<NumberFromString, StringKeyword>>)}

Results == {Num, Str("1")}

(* What a transformation turns a decoded inner value into. *)
Convert(to, x) ==
  IF to._tag = "NumberKeyword" /\ x.t = "string" THEN Num
  ELSE IF to._tag = "StringKeyword" /\ x.t = "number" THEN Str("1")
  ELSE x

RECURSIVE Decoded(_, _)

(* The decoded form of an encoded value the schema accepts: a union        *)
(* decodes with its first member that accepts the value, a transformation  *)
(* converts, every other node of the returns schemas leaves the value.     *)
Decoded(schemaAst, x) ==
  CASE schemaAst._tag = "Transformation" ->
         Convert(schemaAst.to, Decoded(schemaAst.from, x))
    [] schemaAst._tag = "Refinement" -> Decoded(schemaAst.from, x)
    [] schemaAst._tag = "Union" ->
         Decoded(schemaAst.types[CHOOSE i \in 1..Len(schemaAst.types) :
                   /\ SchemaAccepts(schemaAst.types[i], x)
                   /\ \A j \in 1..(i - 1) : ~SchemaAccepts(schemaAst.types[j], x)], x)
    [] OTHER -> x

(* E.map((result) => ReturnsSchema ? S.decodeSync(ReturnsSchema)(result)   *)
(* : result): the throw of decodeSync inside E.map is a defect.            *)
decodeReturns(ReturnsSchema, exit) ==
  IF ReturnsSchema._tag = "NoSchema" \/ ~IsSuccess(exit) THEN exit
  ELSE IF SchemaAccepts(ReturnsSchema, exit.value)
       THEN Succeed(Decoded(ReturnsSchema, exit.value))
       ELSE Die(ParseError)

ResolvedWith(value) == [_tag |-> "resolved", value |-> value]

(* A run that resolves whatever the exit. *)
runPromise_swallow(exit) ==
  IF IsSuccess(exit) THEN ResolvedWith(exit.value) ELSE ResolvedWith(Void)

(* E.runPromise: resolves with the success value, rejects otherwise. *)
runPromise(exit) == IF IsSuccess(exit) THEN ResolvedWith(exit.value) ELSE Rejected

ServiceNotFound == [_tag |-> "ServiceNotFound"]

(* ctxs is the heap of context objects in the order of their construction; *)
(* an object is known by its position.  invs[i] is invocation i: where it  *)
(* stands, the wrapper and returns schema of the function, the services    *)
(* provided to its handler effect (0: not provided), the objects           *)
(* constructed for it, the objects its handler was given, the exit of the  *)
(* handler effect and the promise handed to the host.                      *)
VARIABLES ctxs, invs

serverVars == <<ctxs, invs>>

NoServices == [tag \in Tags |-> 0]

NotInvoked ==
  [pc |-> "idle", kind |-> "query", returns |-> NoSchema, env |-> NoServices,
   made |-> {}, seen |-> {}, exit |-> Pending, promise |-> Pending]

(* A wrapper that builds one query context on first use and provides that  *)
(* same object to every later invocation.                                  *)
query_sharedCtx(convexQueryCtx, heap) ==
  IF \E r \in 1..Len(heap) : heap[r]._tag = "GenericQueryCtx"
  THEN [heap |-> heap,
        env |-> [NoServices EXCEPT
                   !["QueryCtx"] = CHOOSE r \in 1..Len(heap) :
                                     heap[r]._tag = "GenericQueryCtx"]]
  ELSE [heap |-> Append(heap, GenericQueryCtx(convexQueryCtx)),
        env |-> [NoServices EXCEPT !["QueryCtx"] = Len(heap) + 1]]

(* query / internalQuery: the handler effect is given a query context      *)
(* constructed in this call from the native context of this call.          *)
query(convexQueryCtx, heap) ==
  [heap |-> Append(heap, GenericQueryCtx(convexQueryCtx)),
   env |-> [NoServices EXCEPT !["QueryCtx"] = Len(heap) + 1]]

(* createFunctions.internalMutation: a mutation context only. *)
createFunctions_internalMutation(convexMutationCtx, heap) ==
  [heap |-> Append(heap, GenericMutationCtx(convexMutationCtx)),
   env |-> [NoServices EXCEPT !["MutationCtx"] = Len(heap) + 1]]

(* A mutation wrapper that leaves the query context out. *)
mutation_writeOnly(convexMutationCtx, heap) ==
  [heap |-> Append(heap, GenericMutationCtx(convexMutationCtx)),
   env |-> [NoServices EXCEPT !["MutationCtx"] = Len(heap) + 1]]

(* mutation / internalMutation: a query context and a mutation context,    *)
(* both constructed in this call from the same native context.             *)
mutation(convexMutationCtx, heap) ==
  [heap |-> Append(Append(heap, GenericQueryCtx(convexMutationCtx)),
                   GenericMutationCtx(convexMutationCtx)),
   env |-> [NoServices EXCEPT !["QueryCtx"] = Len(heap) + 1,
                              !["MutationCtx"] = Len(heap) + 2]]

httpAction(convexActionCtx, heap) ==
  [heap |-> Append(heap, GenericActionCtx(convexActionCtx)),
   env |-> [NoServices EXCEPT !["HttpActionCtx"] = Len(heap) + 1]]

(* The wrappers that decode arguments and results against schemas. *)
SchemaKinds == {"query", "mutation"}

(* The host calls the registered function.  The arguments are decoded      *)
(* first: when that throws, the promise rejects before any context exists  *)
(* and the handler never runs.                                             *)
Invoke(i, kind, argsOk, ReturnsSchema) ==
  /\ invs[i].pc = "idle"
  /\ kind \notin SchemaKinds => argsOk /\ ReturnsSchema = NoSchema
  /\ IF ~argsOk
     THEN /\ invs' = [invs EXCEPT
                        ![i] = [NotInvoked EXCEPT !.pc = "settled", !.kind = kind,
                                                  !.returns = ReturnsSchema,
                                                  !.promise = Rejected]]
          /\ UNCHANGED ctxs
     ELSE LET r == CASE kind = "query" -> query(ConvexCtx(i, kind), ctxs)
                     [] kind = "mutation" -> mutation(ConvexCtx(i, kind), ctxs)
                     [] kind = "createFunctions.internalMutation" ->
                          createFunctions_internalMutation(ConvexCtx(i, kind), ctxs)
                     [] kind = "httpAction" -> httpAction(ConvexCtx(i, kind), ctxs)
          IN /\ ctxs' = r.heap
             /\ invs' = [invs EXCEPT
                  ![i] = [NotInvoked EXCEPT
                            !.pc = "running", !.kind = kind, !.returns = ReturnsSchema,
                            !.env = r.env,
                            !.made = (1..Len(r.heap)) \ (1..Len(ctxs))]]

(* The handler effect asks for a service its type lets it require          *)
(* (yield* QueryCtx): it is given what was provided to this effect, and    *)
(* dies when nothing was.                                                  *)
Yield(i, tag) ==
  /\ invs[i].pc = "running"
  /\ tag \in Requirements(invs[i].kind)
  /\ invs' = IF invs[i].env[tag] # 0
             THEN [invs EXCEPT ![i].seen = @ \cup {invs[i].env[tag]}]
             ELSE [invs EXCEPT ![i].pc = "completed", ![i].exit = Die(ServiceNotFound)]
  /\ UNCHANGED ctxs

(* The handler effect ends. *)
Complete(i, exit) ==
  /\ invs[i].pc = "running"
  /\ invs' = [invs EXCEPT ![i].pc = "completed", ![i].exit = exit]
  /\ UNCHANGED ctxs

(* The result is decoded against the returns schema and the promise        *)
(* settles; nothing holds the provided services any longer.                *)
Settle(i) ==
  /\ invs[i].pc = "completed"
  /\ invs' = [invs EXCEPT
                ![i].pc = "settled",
                ![i].promise = runPromise(decodeReturns(invs[i].returns, invs[i].exit)),
                ![i].env = NoServices]
  /\ UNCHANGED ctxs

ServerIdle == ctxs = <<>> /\ invs = [i \in Invocations |-> NotInvoked]

ServerNext ==
  \/ \E i \in Invocations, kind \in FunctionKinds, argsOk \in BOOLEAN :
       Invoke(i, kind, argsOk, NoSchema)
  \/ \E i \in Invocations, tag \in Tags : Yield(i, tag)
  \/ \E i \in Invocations, exit \in {Succeed(Num), Fail(DocNotFoundError)} :
       Complete(i, exit)
  \/ \E i \in Invocations : Settle(i)

HandlerExits ==
  {Succeed(r) : r \in Results} \cup {Fail(DocNotFoundError), Die(HostRejected)}

(* One invocation of a function registered with or without a returns       *)
(* schema, with every outcome of its handler.                              *)
ReturnsNext ==
  \/ \E kind \in FunctionKinds, argsOk \in BOOLEAN,
        ReturnsSchema \in ReturnsSchemas \cup {NoSchema} :
       Invoke(1, kind, argsOk, ReturnsSchema)
  \/ \E tag \in Tags : Yield(1, tag)
  \/ \E exit \in HandlerExits : Complete(1, exit)
  \/ Settle(1)

vars == <<store, nextId, inv, rows, objs, qres, pag, ast, out, hist, ctxs, invs>>

Init == ModelInit /\ QueryIdle /\ BridgeIdle /\ hist = NoHistory /\ ServerIdle

Next == ModelNext /\ UNCHANGED queryVars /\ UNCHANGED bridgeVars /\ UNCHANGED hist
  /\ UNCHANGED serverVars

Spec == Init /\ [][Next]_vars

InitQuery == ModelInit /\ QueryInit /\ BridgeIdle /\ hist = NoHistory /\ ServerIdle

NextQuery ==
  QueryNext /\ UNCHANGED modelVars /\ UNCHANGED bridgeVars /\ UNCHANGED hist
  /\ UNCHANGED serverVars

SpecQuery == InitQuery /\ [][NextQuery]_vars

InitBridge == ModelInit /\ QueryIdle /\ BridgeInit /\ hist = NoHistory /\ ServerIdle

NextBridge ==
  BridgeNext /\ UNCHANGED modelVars /\ UNCHANGED queryVars /\ UNCHANGED hist
  /\ UNCHANGED serverVars

SpecBridge == InitBridge /\ [][NextBridge]_vars

InitPaginate == ModelInit /\ PaginateInit /\ BridgeIdle /\ hist = NoHistory /\ ServerIdle

NextPaginate ==
  PaginateNext /\ UNCHANGED modelVars /\ UNCHANGED bridgeVars /\ UNCHANGED hist
  /\ UNCHANGED serverVars

SpecPaginate == InitPaginate /\ [][NextPaginate]_vars

NextHistory == ModelNext /\ Record /\ UNCHANGED queryVars /\ UNCHANGED bridgeVars
  /\ UNCHANGED serverVars

SpecHistory == Init /\ [][NextHistory]_vars

NextAtomic == AtomicNext /\ UNCHANGED queryVars /\ UNCHANGED bridgeVars /\ UNCHANGED hist
  /\ UNCHANGED serverVars

SpecAtomic == Init /\ [][NextAtomic]_vars

NextIdentity ==
  /\ IdentityNext
  /\ UNCHANGED queryVars /\ UNCHANGED bridgeVars /\ UNCHANGED hist
  /\ UNCHANGED serverVars

SpecIdentity == Init /\ [][NextIdentity]_vars

NextServer ==
  /\ ServerNext
  /\ UNCHANGED modelVars /\ UNCHANGED queryVars /\ UNCHANGED bridgeVars
  /\ UNCHANGED hist

SpecServer == Init /\ [][NextServer]_vars

NextReturns ==
  /\ ReturnsNext
  /\ UNCHANGED modelVars /\ UNCHANGED queryVars /\ UNCHANGED bridgeVars
  /\ UNCHANGED hist

(* The promise of a completed effect is settled by the runtime's job       *)
(* queue, which runs every job it holds.                                   *)
SpecReturns == Init /\ [][NextReturns]_vars /\ WF_vars(NextReturns /\ Settle(1))

(***************************************************************************)
(* Properties of the document/model layer (specification Spec)             *)
(***************************************************************************)
Finished(op) == inv.stage = "done" /\ inv.op = op

ShapeOf(op) ==
  CASE op \in {"insert", "insertAndGet"} -> "DocumentWithoutSystemFields"
    [] op \in {"patchById", "patchByIdAndGet"} -> "PartialDocument"
    [] op \in {"replaceById", "replaceByIdAndGet"} -> "DocumentWithOptionalSystemFields"

WriteOps == {"insert", "insertAndGet", "patchById", "patchByIdAndGet",
             "replaceById", "replaceByIdAndGet"}

AndGetOps == {"insertAndGet", "patchByIdAndGet", "replaceByIdAndGet"}

(* The host read an invocation issued, if any, is its last call. *)
ReadIssued == inv.calls # <<>> /\ inv.calls[Len(inv.calls)].fn = "get"

ReadReturned == inv.calls[Len(inv.calls)].ret

C4_PatchReplaceMissingIsFatal ==
  (inv.stage = "done" /\ inv.op \in {"patchById", "replaceById"}
     /\ inv.pre = Null /\ ParseOk(ShapeOf(inv.op), inv.value)) =>
    IsDie(inv.exit)

(* C4 amended: patchById / replaceById issue the host write and no read at *)
(* all; on an identifier that holds no document the outcome is never       *)
(* document-not-found: it is success when the host resolves the write and  *)
(* a defect when the host rejects it.                                      *)
C4_PatchReplaceNoReRead ==
  (inv.stage = "done" /\ inv.op \in {"patchById", "replaceById"}) =>
    /\ \A i \in 1..Len(inv.calls) : inv.calls[i].fn # "get"
    /\ Len(inv.calls) <= 1
    /\ inv.exit # Fail(DocNotFoundError)
    /\ (inv.pre = Null /\ ParseOk(ShapeOf(inv.op), inv.value)) =>
         /\ Len(inv.calls) = 1
         /\ inv.calls[1].ret = Resolved => inv.exit = Succeed(Void)
         /\ inv.calls[1].ret = Rejected => IsDie(inv.exit)

C4_Witness ==
  /\ inv.stage = "done"
  /\ inv.op \in {"patchById", "replaceById"}
  /\ inv.pre = Null
  /\ inv.calls # <<>>
  /\ inv.exit = Succeed(Void)

(* An exit that reports a shape mismatch, in either channel. *)
Mismatch(x) == x = Fail(ParseError) \/ x = Die(ParseError)

Answering(r) == [i \in Ids |-> r]

Mapped == out # NotRun /\ ~IsThrow(out)

(* C7: for every schema the bridge accepts, every value the schema         *)
(* considers valid in its encoded form is accepted by the validator the    *)
(* bridge produces - optional struct fields of union type and structs with *)
(* named fields and an index signature included.                           *)
C7_SchemaValidIsValidatorValid ==
  Mapped => \A x \in Values : SchemaAccepts(ast, x) => VAccepts(out, x)

(* C8: the bridge maps the union of the literals true and false to the     *)
(* validator it maps the boolean primitive to.                             *)
C8_BooleanUnionIsBoolean ==
  (out # NotRun /\ ast = Union(<<Literal("true"), Literal("false")>>)) =>
    out = mapSchemaToValidator(BooleanKeyword)

UserStruct ==
  TypeLiteral(<<PropertySignature("name", StringKeyword, FALSE),
                OptionalProperty("age", NumberKeyword)>>, <<>>)

RECURSIVE HasUndefinedUnion(_)

(* A union validator with an undefined member (a throw stands for it, as   *)
(* the bridge has no validator for undefined) somewhere in the tree.       *)
HasUndefinedUnion(validator) ==
  LET kind == validator.kind
  IN CASE kind = "throw" -> TRUE
       [] kind = "union" ->
            \/ \E i \in 1..Len(validator.members) : validator.members[i].kind = "undefined"
            \/ \E i \in 1..Len(validator.members) : HasUndefinedUnion(validator.members[i])
       [] kind = "optional" -> HasUndefinedUnion(validator.inner)
       [] kind = "array" -> HasUndefinedUnion(validator.element)
       [] kind = "record" -> HasUndefinedUnion(validator.values)
       [] kind = "object" ->
            \E n \in DOMAIN validator.fields : HasUndefinedUnion(validator.fields[n])
       [] OTHER -> FALSE

(* C9: for the struct {name: string, age: optional(number)} the bridge     *)
(* yields the object validator {name: string, age: optional(number)}, with *)
(* no union carrying an undefined member anywhere in it.                   *)
C9_OptionalUnwrapped ==
  (out # NotRun /\ ast = UserStruct) =>
    /\ out = VObject([n \in {"name", "age"} |->
                        IF n = "name" THEN VString ELSE VOptional(VNumber)])
    /\ DOMAIN out.fields = {"name", "age"}
    /\ ~HasUndefinedUnion(out)

C9_Witness ==
  /\ ast = UserStruct
  /\ Mapped
  /\ out.fields["age"] = VOptional(VNumber)

TwiceDeleted(id, first, second) ==
  deleteById(deleteById(store, id, first).store, id, second)

(* C13 as stated: deleteById(id) succeeds whether or not a document exists *)
(* under id, and repeated calls leave the store as a single call does.     *)
C13_DeleteAlwaysSucceeds ==
  /\ Finished("deleteById") => IsSuccess(inv.exit)
  /\ \A id \in Ids, first \in BOOLEAN, second \in BOOLEAN :
       /\ IsSuccess(deleteById(store, id, first).exit)
       /\ TwiceDeleted(id, first, second).store = deleteById(store, id, first).store

(* C13 as the code has it: deleteById issues one host delete and its exit  *)
(* is the host's answer - success when a document exists or the host       *)
(* resolves the delete of a missing one, a defect when the host rejects,   *)
(* never a typed failure; repeated calls leave the store as a single call  *)
(* does, with no document under id.                                        *)
C13_DeleteIsHostsAnswer ==
  /\ Finished("deleteById") =>
       /\ Len(inv.calls) = 1
       /\ inv.calls[1].fn = "delete" /\ inv.calls[1].id = inv.docId
       /\ IsSuccess(inv.exit) <=> inv.calls[1].ret = Resolved
       /\ ~IsFail(inv.exit)
       /\ inv.pre # Null => IsSuccess(inv.exit)
  /\ \A id \in Ids, first \in BOOLEAN, second \in BOOLEAN :
       LET once == deleteById(store, id, first)
           twice == TwiceDeleted(id, first, second)
       IN /\ twice.store = once.store
          /\ HostGet(once.store, id) = Null
          /\ \A other \in Ids \ {id} : HostGet(once.store, other) = HostGet(store, other)
          /\ IsSuccess(twice.exit) <=> second

C13_Witness ==
  /\ Finished("deleteById")
  /\ inv.pre = Null
  /\ inv.exit = Die(HostRejected)
  /\ \E other \in Ids : HostGet(store, other) # Null

ChainState(cls) ==
  CASE cls = "QueryInitializer" -> "unconstrained"
    [] cls = "Query" -> "constrained"
    [] cls = "OrderedQuery" -> "ordered"

Rank(state) ==
  CASE state = "unconstrained" -> 0
    [] state = "constrained" -> 1
    [] state = "ordered" -> 2

(* The chain methods a class declares or inherits                          *)
(* (QueryInitializer extends Query extends OrderedQuery).                  *)
ChainMethods(cls) ==
  {"filter"}
    \cup (IF cls \in {"Query", "QueryInitializer"} THEN {"order"} ELSE {})
    \cup (IF cls = "QueryInitializer"
          THEN {"fullTableScan", "withIndex", "withSearchIndex"} ELSE {})

TerminalMethods(cls) == {"paginate", "collect", "take", "first", "unique"}

(* Every object a chain method of o can return. *)
ChainResults(method, o) ==
  CASE method = "filter" -> {filter(o, p) : p \in Preds}
    [] method = "order" -> {order(o, ord) : ord \in {"asc", "desc"}}
    [] method = "fullTableScan" -> {fullTableScan(o)}
    [] method = "withIndex" -> {withIndex(o)}
    [] method = "withSearchIndex" -> {withSearchIndex(o)}

(* C14: along any chain from db.query(table) the state only moves forward  *)
(* through unconstrained -> constrained -> ordered: no method available on *)
(* an object returns an object of an earlier state.                        *)
C14_ChainMovesForward ==
  \A i \in 1..Len(objs) :
    /\ i > 1 => ChainState(objs[i].cls) # "unconstrained"
    /\ \A method \in ChainMethods(objs[i].cls) :
         \A o \in ChainResults(method, objs[i]) :
           /\ Rank(ChainState(o.cls)) >= Rank(ChainState(objs[i].cls))
           /\ ChainState(o.cls) # "unconstrained"

C14_Witness ==
  /\ Len(objs) = 3
  /\ ChainState(objs[1].cls) = "unconstrained"
  /\ objs[2] = withIndex(objs[1])
  /\ objs[3] = order(objs[2], "desc")
  /\ ChainState(objs[3].cls) = "ordered"

(* C15 as stated: an ordered object offers pagination and the terminal     *)
(* operations only - no index choice, no search index choice, no filter.   *)
C15_OrderedOffersTerminalsOnly ==
  \A i \in 1..Len(objs) :
    ChainState(objs[i].cls) = "ordered" => ChainMethods(objs[i].cls) = {}

(* C15 as the code has it: an ordered object offers filter, pagination and *)
(* the terminal operations; it offers no index choice, no search index     *)
(* choice, no full table scan and no order, and its filter returns an      *)
(* ordered object again.                                                   *)
C15_OrderedOffersFilterAndTerminals ==
  \A i \in 1..Len(objs) :
    ChainState(objs[i].cls) = "ordered" =>
      /\ ChainMethods(objs[i].cls) = {"filter"}
      /\ TerminalMethods(objs[i].cls) = {"paginate", "collect", "take", "first", "unique"}
      /\ \A o \in ChainResults("filter", objs[i]) : ChainState(o.cls) = "ordered"
      /\ ~ENABLED Order(i, "asc") /\ ~ENABLED WithIndex(i)
      /\ ~ENABLED WithSearchIndex(i) /\ ~ENABLED FullTableScan(i)
      /\ Len(objs) < MaxObjs => ENABLED Filter(i, "adult")

C15_Witness ==
  /\ Len(objs) = 3
  /\ objs[2] = order(objs[1], "desc")
  /\ objs[3] = filter(objs[2], "adult")
  /\ ChainState(objs[3].cls) = "ordered"

(* C16: every chain operation returns a newly created object and leaves    *)
(* its receiver - and every other object - as it was, so the receiver      *)
(* still denotes the same query.                                           *)
C16_ChainReturnsNewObject ==
  [][objs' # objs =>
       /\ Len(objs') = Len(objs) + 1
       /\ \A i \in 1..Len(objs) :
            /\ objs'[i] = objs[i]
            /\ HostResults(objs'[i], rows') = HostResults(objs[i], rows)
       /\ \E i \in 1..Len(objs) :
            \E method \in ChainMethods(objs[i].cls) :
              objs'[Len(objs')] \in ChainResults(method, objs[i])]_vars

C16_Witness ==
  /\ Len(objs) = 3
  /\ objs[1] = QueryInitializerObj
  /\ objs[2] = filter(objs[1], "adult")
  /\ objs[3] = order(objs[1], "desc")
  /\ qres.op = "take" /\ qres.recv = 1
  /\ qres.exit = Succeed(HostTake(QueryInitializerObj, rows, 2))
  /\ Len(rows) = 3

(* C17: paginate hands the caller's options, cursor included, to the host  *)
(* unchanged and returns the host's continueCursor unchanged; a cursor     *)
(* returned by one call and supplied to the next reaches the host as the   *)
(* same token, so the next page starts where the last one stopped.         *)
C17_CursorPassesThrough ==
  qres.op \in PaginateOps =>
    /\ Len(qres.calls) = 1
    /\ qres.calls[1].fn = "paginate"
    /\ qres.calls[1].n = pag.opts
    /\ pag.opts.cursor = pag.prev
    /\ qres.op = "paginate" => qres.exit = Succeed(qres.calls[1].ret)
    /\ IsSuccess(qres.exit) =>
         /\ qres.exit.value.continueCursor = qres.calls[1].ret.continueCursor
         /\ qres.exit.value.isDone = qres.calls[1].ret.isDone
         /\ Len(qres.exit.value.page) = Len(qres.calls[1].ret.page)
    /\ LET all == HostResults(objs[qres.recv], rows)
           start == IF pag.prev = Null THEN 0 ELSE pag.prev.pos
       IN \A k \in 1..Len(qres.calls[1].ret.page) :
            qres.calls[1].ret.page[k] = all[start + k]

C17_Witness ==
  /\ qres.op = "model.paginate"
  /\ pag.chained
  /\ pag.prev = Cursor(2)
  /\ IsSuccess(qres.exit)
  /\ Len(qres.exit.value.page) = 1
  /\ qres.exit.value.continueCursor = Cursor(3)
  /\ objs[qres.recv].order = "desc"

(***************************************************************************)
(* The derived shapes (specification Spec)                                 *)
(***************************************************************************)
(* A well-formed value carrying exactly the fields K. *)
Sample(K) ==
  [f \in K |-> CASE f = "name" -> "Joe" [] f = "age" -> 22
                 [] f = "_id" -> 1 [] f = "_creationTime" -> CreationTimeOf(1)]

(* The field sets a shape takes as they are: parsed and nothing dropped. *)
Accepted(shape) ==
  {K \in SUBSET (TableFields \cup SystemFieldNames) :
     ParseOk(shape, Sample(K)) /\ DOMAIN Parsed(shape, Sample(K)) = K}

(* C18: the four derived shapes agree: the create shape has exactly the    *)
(* user schema's fields; the full-document shape adds a required _id and   *)
(* _creationTime; the update shape has the full-document shape's fields,   *)
(* all optional; the optional-identity shape has the user schema's fields  *)
(* plus an optional _id and an optional _creationTime.  Every value a      *)
(* write has encoded lies in the shape of that write.                      *)
C18_ShapesConsistent ==
  /\ Accepted("DocumentWithoutSystemFields") = {TableFields}
  /\ Accepted("Document") = {TableFields \cup SystemFieldNames}
  /\ Accepted("PartialDocument") = SUBSET (TableFields \cup SystemFieldNames)
  /\ Accepted("DocumentWithOptionalSystemFields") =
       {TableFields \cup S : S \in SUBSET SystemFieldNames}
  /\ ShapeFields("PartialDocument") = ShapeFields("Document")
  /\ \A op \in WriteOps \cup AndGetOps :
       (inv.op = op /\ Len(inv.calls) > 0) => DOMAIN inv.value \in Accepted(ShapeOf(op))
  /\ \A id \in Ids :
       (HostGet(store, id) # Null /\ ParseOk("Document", HostGet(store, id))) =>
         DOMAIN HostGet(store, id) \in Accepted("Document")

C18_Witness ==
  /\ Finished("patchById")
  /\ IsSuccess(inv.exit)
  /\ DOMAIN inv.value = {"age"}
  /\ inv.pre # Null
  /\ HostGet(store, inv.docId) = Merge(inv.pre, inv.value)

(***************************************************************************)
(* Contexts of registered functions (specification SpecServer)             *)
(***************************************************************************)
(* The native context a context object was constructed from. *)
NativeOf(c) ==
  CASE c._tag = "GenericQueryCtx" -> c.convexQueryCtx
    [] c._tag = "GenericMutationCtx" -> c.convexMutationCtx
    [] c._tag = "GenericActionCtx" -> c.convexActionCtx

(* The context objects within reach of invocation i's handler effect. *)
Visible(i) == invs[i].seen \cup ({invs[i].env[tag] : tag \in Tags} \ {0})

Isolated ==
  /\ \A i \in Invocations : \A r \in Visible(i) :
       /\ r \in invs[i].made
       /\ NativeOf(ctxs[r]) = ConvexCtx(i, invs[i].kind)
       /\ ctxs[r].auth.convexAuth = ConvexCtx(i, invs[i].kind).auth
       /\ ctxs[r]._tag # "GenericActionCtx" =>
            ctxs[r].db.convexDb = ConvexCtx(i, invs[i].kind).db
       /\ ctxs[r].storage.convexStorage = ConvexCtx(i, invs[i].kind).storage
  /\ \A i, j \in Invocations : i # j => Visible(i) \cap Visible(j) = {}

Immutable ==
  /\ Len(ctxs') >= Len(ctxs)
  /\ \A r \in 1..Len(ctxs) : ctxs'[r] = ctxs[r]

(* C19: whatever the host invocations and however they overlap, the        *)
(* handler effect of each invocation is given only context objects         *)
(* constructed for that invocation from its own native context, no context *)
(* object is within reach of two invocations, and no step changes a field  *)
(* of a context object that exists.                                        *)
C19_ContextIsolation == [](Isolated) /\ [][Immutable]_vars

(* Two overlapping invocations, a query and a mutation, each of which has  *)
(* been given every context provided to it. *)
C19_Witness ==
  /\ invs[1].pc = "running" /\ invs[2].pc = "running"
  /\ invs[1].kind = "mutation" /\ invs[2].kind = "query"
  /\ Cardinality(invs[1].seen) = 2
  /\ Cardinality(invs[2].seen) = 1
  /\ 1 \in invs[2].seen

(***************************************************************************)
(* Further properties of the document/model layer (specification Spec)     *)
(***************************************************************************)
ReadOps == {"getById", "getByIdNullable", "getByIdOption"}

PlainWriteOps == {"insert", "patchById", "replaceById"}

(* C25: a step in which insert, patchById or replaceById is given a value  *)
(* that does not encode against its shape ends in the typed parse failure, *)
(* issues no host call and leaves the store and the identifier counter as  *)
(* they were.                                                              *)
C25_EncodeFailureWritesNothing ==
  [][(inv' # inv /\ inv'.stage = "done" /\ inv'.op \in PlainWriteOps
        /\ ~ParseOk(ShapeOf(inv'.op), inv'.value)) =>
       /\ inv'.exit = Fail(ParseError)
       /\ inv'.calls = <<>>
       /\ store' = store
       /\ nextId' = nextId]_vars

C25_Witness ==
  /\ Finished("replaceById")
  /\ ~ParseOk("DocumentWithOptionalSystemFields", inv.value)
  /\ inv.exit = Fail(ParseError)
  /\ inv.pre # Null
  /\ HostGet(store, inv.docId) = inv.pre

WriteFn(op) ==
  CASE op = "insertAndGet" -> "insert"
    [] op = "patchByIdAndGet" -> "patch"
    [] op = "replaceByIdAndGet" -> "replace"

C23_ForeignIdentityRefused ==
  (Finished("replaceById") /\ inv.pre # Null) =>
    IF IdentityMatches(inv.pre, inv.value)
    THEN /\ inv.exit = Succeed(Void)
         /\ HostGet(store, inv.docId) = Merge(inv.value, SystemFields(inv.docId))
    ELSE /\ ~IsSuccess(inv.exit)
         /\ HostGet(store, inv.docId) = inv.pre

(***************************************************************************)
(* Registered functions (specifications SpecServer and SpecReturns)        *)
(***************************************************************************)
HandlerRan(i) == invs[i].pc = "settled" /\ invs[i].exit._tag # "Pending"

IsResolved(i) == invs[i].promise._tag = "resolved"

ResultDecodes(i) ==
  invs[i].returns._tag = "NoSchema" \/ SchemaAccepts(invs[i].returns, invs[i].exit.value)

PromiseFollowsDecodedExit ==
  \A i \in Invocations :
    /\ invs[i].pc # "settled" => invs[i].promise = Pending
    /\ invs[i].pc = "settled" => invs[i].promise._tag \in {"resolved", "rejected"}
    /\ (invs[i].pc = "settled" /\ ~HandlerRan(i)) => invs[i].promise = Rejected
    /\ HandlerRan(i) =>
         /\ IsResolved(i) <=> (IsSuccess(invs[i].exit) /\ ResultDecodes(i))
         /\ IsResolved(i) =>
              invs[i].promise.value =
                IF invs[i].returns._tag = "NoSchema" THEN invs[i].exit.value
                ELSE Decoded(invs[i].returns, invs[i].exit.value)
         /\ ~IsSuccess(invs[i].exit) => invs[i].promise = Rejected

RECURSIVE TypeAccepts(_, _)

(* x is a valid value of the schema's decoded type. *)
TypeAccepts(schemaAst, x) ==
  CASE schemaAst._tag = "Transformation" -> TypeAccepts(schemaAst.to, x)
    [] schemaAst._tag = "Union" ->
         \E i \in 1..Len(schemaAst.types) : TypeAccepts(schemaAst.types[i], x)
    [] OTHER -> SchemaAccepts(schemaAst, x)

(* C27: a function registered with a returns schema, whose handler gave a  *)
(* valid value of the schema's decoded type, resolves its promise only     *)
(* with values the validator derived from that schema accepts.             *)
C27_ResolvedValueIsValidatorValid ==
  \A i \in Invocations :
    (HandlerRan(i) /\ IsResolved(i) /\ invs[i].returns._tag # "NoSchema"
       /\ TypeAccepts(invs[i].returns, invs[i].exit.value)) =>
      VAccepts(mapSchemaToValidator(invs[i].returns), invs[i].promise.value)

Held(i) == {ctxs[invs[i].env[tag]] : tag \in {t \in Tags : invs[i].env[t] # 0}}

MissedService(i) == IsDie(invs[i].exit) /\ invs[i].exit.defect = ServiceNotFound

(* C28 as stated: query wrappers supply the read tag, every mutation       *)
(* wrapper, public or internal, supplies the read and the write tag bound  *)
(* to the same native context, and no handler stops on a missing context.  *)
C28_MutationsSupplyBothTags ==
  \A i \in Invocations :
    /\ (invs[i].pc = "running" /\ invs[i].kind = "query") => invs[i].env["QueryCtx"] # 0
    /\ (invs[i].pc = "running"
          /\ invs[i].kind \in {"mutation", "createFunctions.internalMutation"}) =>
         /\ invs[i].env["QueryCtx"] # 0
         /\ invs[i].env["MutationCtx"] # 0
         /\ \A c \in Held(i) : NativeOf(c) = ConvexCtx(i, invs[i].kind)
    /\ ~MissedService(i)

(* C28 amended: every tag the handler type of a wrapper lets the effect    *)
(* require is supplied before the effect runs, bound to the native context *)
(* of the invocation: the read tag by query wrappers, the read and the     *)
(* write tag by the mutation wrappers of createServerFunctions, the write  *)
(* tag alone by createFunctions.internalMutation; no handler stops on a    *)
(* missing context.                                                        *)
C28_RequirementsSupplied ==
  \A i \in Invocations :
    /\ invs[i].pc = "running" =>
         /\ {tag \in Tags : invs[i].env[tag] # 0} = Requirements(invs[i].kind)
         /\ \A c \in Held(i) : NativeOf(c) = ConvexCtx(i, invs[i].kind)
         /\ invs[i].kind = "mutation" =>
              invs[i].env["QueryCtx"] # 0 /\ invs[i].env["MutationCtx"] # 0
         /\ invs[i].kind = "createFunctions.internalMutation" =>
              invs[i].env["QueryCtx"] = 0 /\ invs[i].env["MutationCtx"] # 0
    /\ ~MissedService(i)

C28_Witness ==
  /\ invs[1].kind = "createFunctions.internalMutation" /\ invs[1].pc = "running"
  /\ invs[1].seen = {invs[1].env["MutationCtx"]}
  /\ invs[2].kind = "mutation" /\ invs[2].pc = "running"
  /\ Cardinality(invs[2].seen) = 2

(***************************************************************************)
(* Tuples and unsupported schemas (specification SpecBridge)               *)
(***************************************************************************)
(* The element types of a tuple node, required elements and rest alike. *)
ElementTypes(tuple) ==
  {tuple.elements[i].type : i \in 1..Len(tuple.elements)}
    \cup {tuple.rest[i].type : i \in 1..Len(tuple.rest)}

(* C29: a tuple whose elements have exactly one element type becomes       *)
(* array(elementValidator); array(union(...)) is emitted only for several  *)
(* distinct element types, with one member per distinct type.              *)
C29_TupleUnionPerDistinctType ==
  (ast._tag = "TupleType" /\ out.kind = "array") =>
    /\ Cardinality(ElementTypes(ast)) = 1 =>
         \A type \in ElementTypes(ast) : out = VArray(mapAstToValidator(type, FALSE))
    /\ Cardinality(ElementTypes(ast)) > 1 =>
         /\ out.element.kind = "union"
         /\ Len(out.element.members) = Cardinality(ElementTypes(ast))
         /\ {out.element.members[i] : i \in 1..Len(out.element.members)} =
              {mapAstToValidator(type, FALSE) : type \in ElementTypes(ast)}

SupportedLeaves ==
  {"AnyKeyword", "Literal", "NumberKeyword", "BigIntKeyword", "BooleanKeyword", "StringKeyword"}

RECURSIVE ContainsUnsupported(_)

(* The schema holds, at some depth of its encoded side, an optional tuple  *)
(* element, a record key that is not a plain string or a node kind the     *)
(* bridge has no case for.  The undefined member that S.optional adds to   *)
(* the type of an optional property is part of the property, not a node    *)
(* of its own.                                                             *)
ContainsUnsupported(schemaAst) ==
  CASE schemaAst._tag \in SupportedLeaves -> FALSE
    [] schemaAst._tag = "Union" ->
         \E i \in 1..Len(schemaAst.types) : ContainsUnsupported(schemaAst.types[i])
    [] schemaAst._tag \in {"Refinement", "Transformation"} -> ContainsUnsupported(schemaAst.from)
    [] schemaAst._tag = "TupleType" ->
         \/ \E i \in 1..Len(schemaAst.elements) :
              schemaAst.elements[i].isOptional \/ ContainsUnsupported(schemaAst.elements[i].type)
         \/ \E i \in 1..Len(schemaAst.rest) : ContainsUnsupported(schemaAst.rest[i].type)
    [] schemaAst._tag = "TypeLiteral" ->
         \/ \E i \in 1..Len(schemaAst.indexSignatures) :
              \/ schemaAst.indexSignatures[i].parameter._tag # "StringKeyword"
              \/ ContainsUnsupported(schemaAst.indexSignatures[i].type)
         \/ \E i \in 1..Len(schemaAst.propertySignatures) :
              LET signature == schemaAst.propertySignatures[i]
              IN IF signature.isOptional /\ signature.type._tag = "Union"
                 THEN \E j \in 1..Len(signature.type.types) :
                        /\ signature.type.types[j]._tag # "UndefinedKeyword"
                        /\ ContainsUnsupported(signature.type.types[j])
                 ELSE ContainsUnsupported(signature.type)
    [] OTHER -> TRUE

(* C30: a schema that contains an optional tuple element, a record key     *)
(* that is not a plain string or an unrecognised node kind makes the       *)
(* bridge raise in the call itself and produce no validator.               *)
C30_UnsupportedAlwaysRaises ==
  (out # NotRun /\ ContainsUnsupported(ast)) => IsThrow(out)

====
